---- MODULE Spec2Model ----
(***************************************************************************)
(* Register allocation for one straight-line block of three-address code:  *)
(* liveness analysis (liveness.py), interference-graph construction and    *)
(* the backtracking allocator (interference.py), and the saturation-degree *)
(* colouring search (graphcolor.py).                                       *)
(*                                                                         *)
(* A token (a Python str) is a sequence of one-character strings, so that  *)
(* the classification rule is_var is computed on the characters.  Python   *)
(* lists are sequences (index i of the code is index i+1 here), Python     *)
(* sets are sets, a dict is a function together with its insertion order.  *)
(***************************************************************************)
EXTENDS Integers, Sequences, FiniteSets, TLC

VARIABLES
    oplist,        \* IntermediateCode.oplist
    live_out,      \* IntermediateCode.live_out (a list)
    live_before,   \* IntermediateCode.live_before (NoneTable until computed)
    live_after,    \* IntermediateCode.live_after
    nodes,         \* InterferenceGraph.nodes: variable -> set of neighbours
    node_order,    \* insertion order of the keys of InterferenceGraph.nodes
    assignments,   \* InterferenceGraph.assignments: variable -> register
    colouring,     \* GraphColouring.colouring: variable -> register
    num_regs,      \* the register count handed to the search
    stack,         \* the frames of the recursive search, outermost first
    pc,            \* where the innermost activation of the search stands
    ret,           \* the value returned by the activation that just ended
    result,        \* the value returned by the outermost call
    algo,          \* which search runs: allocate_registers or GraphColouring
    phase,         \* main | read | block | built | graph | search | done | exit | fault
    fault,         \* the exception that ended the run ("none" if none)
    last_edge,     \* history: the arguments of the latest add_edge call
    argv,          \* sys.argv of a run of main (<< >> when main does not run)
    main_return    \* << r >> once main has returned r, << >> before

vars == << oplist, live_out, live_before, live_after, nodes, node_order,
           assignments, colouring, num_regs, stack, pc, ret, result, algo,
           phase, fault, last_edge, argv, main_return >>

blockVars == << oplist, live_out, live_before, live_after >>
graphVars == << nodes, node_order >>
searchVars == << assignments, colouring, num_regs, stack, pc, ret, result, algo >>
mainVars == << argv, main_return >>

-----------------------------------------------------------------------------
(* Bounds of the model.                                                    *)

MaxOps == 2
MaxNodes == 4
MaxK == 3

-----------------------------------------------------------------------------
(* Tokens.                                                                 *)

\* Python's None, where a token or a variable name is expected.
None == << "None" >>

\* live_before / live_after before compute_liveness_info has run (None).
NoneTable == << {None} >>

tok_a == << "a" >>
tok_b == << "b" >>
tok_c == << "c" >>
tok_d == << "d" >>
tok_t == << "t" >>
tok_t1 == << "t", "1" >>
tok_1 == << "1" >>
tok_m1 == << "-", "1" >>
tok_plus == << "+" >>

Digits == {"0", "1", "2", "3", "4", "5", "6", "7", "8", "9"}
LowerLetters == {"a", "b", "c", "d", "e", "f", "g", "h", "i", "j", "k", "l", "m",
                 "n", "o", "p", "q", "r", "s", "t", "u", "v", "w", "x", "y", "z"}

UpperLetters == {"A", "B", "C", "D", "E", "F", "G", "H", "I", "J", "K", "L", "M",
                 "N", "O", "P", "Q", "R", "S", "T", "U", "V", "W", "X", "Y", "Z"}

\* Code points of the characters the model's tokens are made of: Python
\* compares strings by code point, character by character.
Ord(ch) ==
    CASE ch = "+" -> 43
      [] ch = "-" -> 45
      [] ch = "1" -> 49
      [] ch = "a" -> 97
      [] ch = "b" -> 98
      [] ch = "c" -> 99
      [] ch = "d" -> 100
      [] ch = "t" -> 116

\* s < t on Python strings.
StrLess(s, t) ==
    \E i \in 1..(Len(s) + 1) :
        /\ \A j \in 1..(i - 1) : j <= Len(t) /\ s[j] = t[j]
        /\ \/ i = Len(s) + 1 /\ Len(t) >= i
           \/ i <= Len(s) /\ i <= Len(t) /\ Ord(s[i]) < Ord(t[i])

\* sorted(S) for a collection of distinct strings.
RECURSIVE sorted(_)
sorted(S) ==
    IF S = {} THEN << >>
    ELSE LET m == CHOOSE x \in S : \A y \in S \ {x} : StrLess(x, y)
         IN  << m >> \o sorted(S \ {m})

Reverse(s) == [i \in 1..Len(s) |-> s[Len(s) + 1 - i]]

\* list(S) for a Python set S: the iteration order of a set of strings is
\* not fixed by the language; `rev` draws one of two orders.
ListOfSet(S, rev) == IF rev THEN Reverse(sorted(S)) ELSE sorted(S)

\* set(l) for a list l.
ToSet(l) == {l[i] : i \in 1..Len(l)}

-----------------------------------------------------------------------------
(* liveness.py                                                             *)

\* str.isdigit(): non-empty and every character a digit.
isdigit(s) == s # << >> /\ \A i \in 1..Len(s) : s[i] \in Digits

\* str.islower() on a string of the model's alphabet (only letters are cased).
islower(s) ==
    /\ \E i \in 1..Len(s) : s[i] \in LowerLetters
    /\ \A i \in 1..Len(s) : s[i] \notin UpperLetters

startswith(s, ch) == Len(s) >= 1 /\ s[1] = ch

\* is_var without the exclusion of the bare letter t.
is_var_bare_t(tok) ==
    \/ startswith(tok, "t") /\ isdigit(SubSeq(tok, 2, Len(tok)))
    \/ Len(tok) = 1 /\ islower(tok)

is_var(tok) ==
    \/ startswith(tok, "t") /\ isdigit(SubSeq(tok, 2, Len(tok)))
    \/ Len(tok) = 1 /\ islower(tok) /\ tok # tok_t

defs(op) == {op.destination}

\* uses with the second operand forgotten.
uses_operand1_only(op) ==
    IF op.operand1 # None /\ is_var(op.operand1) THEN {op.operand1} ELSE {}

uses(op) ==
    (IF op.operand1 # None /\ is_var(op.operand1) THEN {op.operand1} ELSE {})
    \cup
    (IF op.operand2 # None /\ is_var(op.operand2) THEN {op.operand2} ELSE {})

\* The loop of compute_liveness, entered at index i (bottom to top) with
\* current_live = cur; returns << live_before, live_after >>.
RECURSIVE LivenessLoop(_, _, _, _, _)
LivenessLoop(ops, i, cur, lb, la) ==
    IF i < 1 THEN << lb, la >>
    ELSE LET la2 == [la EXCEPT ![i] = cur]
             d == defs(ops[i])
             u == uses(ops[i])
             lb2 == [lb EXCEPT ![i] = u \cup (la2[i] \ d)]
         IN  LivenessLoop(ops, i - 1, lb2[i], lb2, la2)

\* compute_liveness started from an empty current_live instead of live_out.
compute_liveness_no_exit(ops, lo) ==
    LET n == Len(ops)
    IN  LivenessLoop(ops, n, {}, [i \in 1..n |-> {}], [i \in 1..n |-> {}])

compute_liveness(ops, lo) ==
    LET n == Len(ops)
    IN  LivenessLoop(ops, n, lo, [i \in 1..n |-> {}], [i \in 1..n |-> {}])

\* compute_liveness on Python's objects.  A store is the sequence of the set
\* objects that exist, a reference is an index into it; object 1 is the set
\* passed as live_out.  A list of sets is a sequence of references.

\* set(x) without the copy: the same object again.
set_copy_alias(store, ref) == [store |-> store, ref |-> ref]

\* set(x) for the set object x: a new object with the same elements.
set_copy(store, ref) == [store |-> Append(store, store[ref]), ref |-> Len(store) + 1]

\* A set expression (u | (live_after[i] - d)) evaluates to a new object.
new_set(store, S) == [store |-> Append(store, S), ref |-> Len(store) + 1]

\* The loop of compute_liveness on objects, entered at index i; st holds the
\* store, the reference current_live and the two lists of references.
RECURSIVE LivenessLoopObjects(_, _, _)
LivenessLoopObjects(ops, i, st) ==
    IF i < 1 THEN st
    ELSE LET c == set_copy(st.store, st.cur)
             la2 == [st.la EXCEPT ![i] = c.ref]
             d == defs(ops[i])
             u == uses(ops[i])
             b == new_set(c.store, u \cup (c.store[la2[i]] \ d))
             lb2 == [st.lb EXCEPT ![i] = b.ref]
         IN  LivenessLoopObjects(ops, i - 1,
                                 [store |-> b.store, cur |-> lb2[i],
                                  lb |-> lb2, la |-> la2])

\* [set() for i in range(n)]: a list of n new empty set objects.
RECURSIVE NewEmptySets(_, _)
NewEmptySets(store, n) ==
    IF n = 0 THEN [store |-> store, refs |-> << >>]
    ELSE LET r == NewEmptySets(store, n - 1)
             e == new_set(r.store, {})
         IN  [store |-> e.store, refs |-> Append(r.refs, e.ref)]

\* compute_liveness(ops, live_out) on objects: the two lists start as lists
\* of new empty sets, current_live as a copy of live_out.
compute_liveness_objects(ops, lo) ==
    LET n == Len(ops)
        b == NewEmptySets(<< lo >>, n)
        a == NewEmptySets(b.store, n)
        c == set_copy(a.store, 1)
    IN  LivenessLoopObjects(ops, n,
                            [store |-> c.store, cur |-> c.ref,
                             lb |-> b.refs, la |-> a.refs])

-----------------------------------------------------------------------------
(* intermediate.py                                                         *)

\* The tokens instructions and live-out lists are drawn from: named
\* variables, a temporary, integer literals, and the bare letter t (which is
\* neither a variable nor a literal).
DestPool == {tok_a, tok_b}
Operand1Pool == {tok_a, tok_t1, tok_1, tok_t}
NegPool == {tok_a}
BinaryPool == {<< tok_a, tok_b >>, << tok_t1, tok_m1 >>, << tok_1, tok_b >>}
LivePool == {tok_b, tok_t1, tok_t}

\* Operation: dst = src, dst = -src, dst = src1 op src2.
Operation(dst, src1, op, src2, neg) ==
    [destination |-> dst, operand1 |-> src1, operator |-> op,
     operand2 |-> src2, unary_neg |-> neg]

OpPool ==
    {Operation(d, x, None, None, FALSE) : d \in DestPool, x \in Operand1Pool}
    \cup
    {Operation(d, x, None, None, TRUE) : d \in DestPool, x \in NegPool}
    \cup
    {Operation(d, xy[1], tok_plus, xy[2], FALSE) : d \in DestPool, xy \in BinaryPool}

\* IntermediateCode(live_out = lo): no instructions, no liveness tables.
InitBlock ==
    /\ oplist = << >>
    /\ live_out \in {sorted(S) : S \in SUBSET LivePool}
    /\ live_before = NoneTable
    /\ live_after = NoneTable
    /\ nodes = << >>
    /\ node_order = << >>
    /\ assignments = << >>
    /\ colouring = << >>
    /\ num_regs = 0
    /\ stack = << >>
    /\ pc = "idle"
    /\ ret = FALSE
    /\ result = FALSE
    /\ algo = "none"
    /\ phase = "block"
    /\ fault = "none"
    /\ last_edge = << >>
    /\ argv = << >>
    /\ main_return = << >>

\* IntermediateCode.insert
insert(op) ==
    /\ phase = "block"
    /\ Len(oplist) < MaxOps
    /\ oplist' = Append(oplist, op)
    /\ UNCHANGED << live_out, live_before, live_after >>
    /\ UNCHANGED << graphVars, searchVars, phase, fault, last_edge >>
    /\ UNCHANGED mainVars

\* IntermediateCode.compute_liveness_info
compute_liveness_info ==
    /\ phase = "block"
    /\ LET r == compute_liveness(oplist, ToSet(live_out))
       IN  /\ live_before' = r[1]
           /\ live_after' = r[2]
    /\ UNCHANGED << oplist, live_out >>
    /\ UNCHANGED << graphVars, searchVars, phase, fault, last_edge >>
    /\ UNCHANGED mainVars

-----------------------------------------------------------------------------
(* interference.py: InterferenceGraph                                      *)

\* InterferenceGraph.__init__: every variable a key with no neighbours.
EmptyAdjacency(variables) == [v \in ToSet(variables) |-> {}]

\* add_edge without the test u != v.
add_edge_no_guard(ns, u, v) ==
    IF u \notin DOMAIN ns
    THEN [nodes |-> ns, raised |-> TRUE]
    ELSE IF v \notin DOMAIN ns
         THEN [nodes |-> [ns EXCEPT ![u] = @ \cup {v}], raised |-> TRUE]
         ELSE [nodes |-> [[ns EXCEPT ![u] = @ \cup {v}] EXCEPT ![v] = @ \cup {u}],
               raised |-> FALSE]

\* add_edge recording the edge at u only.
add_edge_one_way(ns, u, v) ==
    IF u # v
    THEN IF u \notin DOMAIN ns
         THEN [nodes |-> ns, raised |-> TRUE]
         ELSE IF v \notin DOMAIN ns
              THEN [nodes |-> [ns EXCEPT ![u] = @ \cup {v}], raised |-> TRUE]
              ELSE [nodes |-> [ns EXCEPT ![u] = @ \cup {v}], raised |-> FALSE]
    ELSE [nodes |-> ns, raised |-> FALSE]

\* InterferenceGraph.add_edge on the dict ns.  nodes[u].add(v) runs before
\* nodes[v] is looked up: a missing u raises KeyError with ns untouched, a
\* missing v raises KeyError after v has been added to u's set.
add_edge(ns, u, v) ==
    IF u # v
    THEN IF u \notin DOMAIN ns
         THEN [nodes |-> ns, raised |-> TRUE]
         ELSE IF v \notin DOMAIN ns
              THEN [nodes |-> [ns EXCEPT ![u] = @ \cup {v}], raised |-> TRUE]
              ELSE [nodes |-> [ns EXCEPT ![u] = @ \cup {v}, ![v] = @ \cup {u}],
                    raised |-> FALSE]
    ELSE [nodes |-> ns, raised |-> FALSE]

\* InterferenceGraph.get_neighbors: nodes.get(var, set())
get_neighbors(ns, var) == IF var \in DOMAIN ns THEN ns[var] ELSE {}

\* The double loop "for i / for j in range(i + 1, len)" over the list l,
\* entered at (i, j): add_edge on every pair, stopping at the first KeyError.
RECURSIVE AddPairs(_, _, _, _)
AddPairs(g, l, i, j) ==
    IF g.raised \/ i > Len(l) THEN g
    ELSE IF j > Len(l) THEN AddPairs(g, l, i + 1, i + 2)
    ELSE AddPairs(add_edge(g.nodes, l[i], l[j]), l, i, j + 1)

\* "for live_set in code.live_after", entered at index i.
RECURSIVE AddLiveSets(_, _, _, _)
AddLiveSets(g, la, i, rev) ==
    IF g.raised \/ i > Len(la) THEN g
    ELSE AddLiveSets(AddPairs(g, ListOfSet(la[i], rev), 1, 2), la, i + 1, rev)

\* all_vars started from the empty set instead of set(code.live_out).
all_vars_no_live_out(ops, lo) ==
    {ops[i].destination : i \in 1..Len(ops)}
    \cup {ops[i].operand1 : i \in {k \in 1..Len(ops) : ops[k].operand1 # None}}
    \cup {ops[i].operand2 : i \in {k \in 1..Len(ops) : ops[k].operand2 # None}}

\* The names build_interference_graph collects before filtering.  "if
\* op.operand1:" skips None (and the empty string, which no pool holds).
all_vars(ops, lo) ==
    ToSet(lo)
    \cup {ops[i].destination : i \in 1..Len(ops)}
    \cup {ops[i].operand1 : i \in {k \in 1..Len(ops) : ops[k].operand1 # None}}
    \cup {ops[i].operand2 : i \in {k \in 1..Len(ops) : ops[k].operand2 # None}}

valid_vars(ops, lo) == sorted({v \in all_vars(ops, lo) : is_var(v)})

\* build_interference_graph without the edges of the entry live-set.
build_interference_graph_no_entry(ops, lo, lb, la, rev) ==
    LET vv == valid_vars(ops, lo)
        g0 == [nodes |-> EmptyAdjacency(vv), raised |-> FALSE]
        g2 == AddLiveSets(g0, la, 1, rev)
    IN  [order |-> vv, nodes |-> g2.nodes, raised |-> g2.raised]

\* build_interference_graph without the loop over code.live_after.
build_interference_graph_entry_only(ops, lo, lb, la, rev) ==
    LET vv == valid_vars(ops, lo)
        g0 == [nodes |-> EmptyAdjacency(vv), raised |-> FALSE]
        g1 == IF lb # << >>
              THEN AddPairs(g0, ListOfSet(lb[1], rev), 1, 2)
              ELSE g0
    IN  [order |-> vv, nodes |-> g1.nodes, raised |-> g1.raised]

\* build_interference_graph(code): [order, nodes, raised]
build_interference_graph(ops, lo, lb, la, rev) ==
    LET vv == valid_vars(ops, lo)
        g0 == [nodes |-> EmptyAdjacency(vv), raised |-> FALSE]
        g1 == IF lb # << >>
              THEN AddPairs(g0, ListOfSet(lb[1], rev), 1, 2)
              ELSE g0
        g2 == AddLiveSets(g1, la, 1, rev)
    IN  [order |-> vv, nodes |-> g2.nodes, raised |-> g2.raised]

\* main.py: graph = build_interference_graph(code), after
\* code.compute_liveness_info().  A KeyError leaves build_interference_graph
\* with no graph returned and is caught nowhere.
BuildGraph ==
    /\ phase = "block"
    /\ live_before # NoneTable
    /\ \E rev \in BOOLEAN :
         LET g == build_interference_graph(oplist, live_out, live_before,
                                           live_after, rev)
         IN  IF g.raised
             THEN /\ fault' = "KeyError"
                  /\ phase' = "fault"
                  /\ UNCHANGED graphVars
             ELSE /\ nodes' = g.nodes
                  /\ node_order' = g.order
                  /\ phase' = "built"
                  /\ UNCHANGED fault
    /\ UNCHANGED << blockVars, searchVars, last_edge >>
    /\ UNCHANGED mainVars

\* A graph handed to a search: InterferenceGraph(variables) for a list of
\* distinct names, edges then added by add_edge.
AllocNames == {tok_a, tok_b, tok_c, tok_d}

VariableLists ==
    UNION {{l \in [1..n -> AllocNames] : \A i, j \in 1..n : i # j => l[i] # l[j]} :
           n \in 0..MaxNodes}

InitGraph ==
    /\ oplist = << >>
    /\ live_out = << >>
    /\ live_before = NoneTable
    /\ live_after = NoneTable
    /\ node_order \in VariableLists
    /\ nodes = EmptyAdjacency(node_order)
    /\ assignments = << >>
    /\ colouring = << >>
    /\ num_regs = 0
    /\ stack = << >>
    /\ pc = "idle"
    /\ ret = FALSE
    /\ result = FALSE
    /\ algo = "none"
    /\ phase = "graph"
    /\ fault = "none"
    /\ last_edge = << >>
    /\ argv = << >>
    /\ main_return = << >>

\* graph.add_edge(u, v), called on the graph under construction.  A KeyError
\* is caught nowhere: the run ends, the dict as add_edge left it.
AddEdge(u, v) ==
    /\ phase = "graph"
    /\ LET g == add_edge(nodes, u, v)
       IN  /\ nodes' = g.nodes
           /\ fault' = IF g.raised THEN "KeyError" ELSE fault
           /\ phase' = IF g.raised THEN "fault" ELSE phase
    /\ last_edge' = << u, v >>
    /\ UNCHANGED << blockVars, node_order, searchVars >>
    /\ UNCHANGED mainVars

-----------------------------------------------------------------------------
(* interference.py: allocate_registers                                     *)

\* InterferenceGraph.assign
assign(asg, var, colour) ==
    [x \in DOMAIN asg \cup {var} |-> IF x = var THEN colour ELSE asg[x]]

\* unassign that leaves the entry in place.
unassign_keeps(asg, var) == asg

\* InterferenceGraph.unassign
unassign(asg, var) ==
    IF var \in DOMAIN asg THEN [x \in DOMAIN asg \ {var} |-> asg[x]] ELSE asg

\* get_unassigned_variable returning the last key without an assignment.
get_unassigned_variable_last(order, asg) ==
    LET open == {i \in 1..Len(order) : order[i] \notin DOMAIN asg}
    IN  IF open = {} THEN None
        ELSE order[CHOOSE i \in open : \A j \in open : i >= j]

\* InterferenceGraph.get_unassigned_variable: the first key of nodes, in
\* insertion order, that has no assignment; None if there is none.
get_unassigned_variable(order, asg) ==
    LET open == {i \in 1..Len(order) : order[i] \notin DOMAIN asg}
    IN  IF open = {} THEN None
        ELSE order[CHOOSE i \in open : \A j \in open : i <= j]

\* is_safe looking up the variable itself instead of its neighbour.
is_safe_own_colour(ns, asg, var, colour) ==
    \A neighbor \in get_neighbors(ns, var) :
        ~(var \in DOMAIN asg /\ asg[var] = colour)

\* is_safe comparing with every assigned variable, neighbour or not.
is_safe_all_nodes(ns, asg, var, colour) ==
    \A other \in DOMAIN ns :
        ~(other \in DOMAIN asg /\ asg[other] = colour)

\* InterferenceGraph.is_safe
is_safe(ns, asg, var, colour) ==
    \A neighbor \in get_neighbors(ns, var) :
        ~(neighbor \in DOMAIN asg /\ asg[neighbor] = colour)

Frame(var, colour) == [var |-> var, colour |-> colour]
Top == stack[Len(stack)]
Pop == SubSeq(stack, 1, Len(stack) - 1)

\* The loop over the colours never moving on to the next colour.
SetTopColour_stuck(c) == stack

\* The innermost loop goes on with colour c.
SetTopColour(c) == [stack EXCEPT ![Len(stack)] = Frame(Top.var, c)]

\* main.py: success = allocate_registers(graph, num_regs), num_regs >= 1.
StartAllocate(k) ==
    /\ phase = "graph"
    /\ phase' = "search"
    /\ algo' = "allocate_registers"
    /\ num_regs' = k
    /\ pc' = "call"
    /\ last_edge' = << >>
    /\ UNCHANGED << blockVars, graphVars, assignments, colouring, stack, ret,
                    result, fault >>
    /\ UNCHANGED mainVars

\* Entry of one activation of allocate_registers: pick the variable, return
\* True if there is none, else enter the loop over the colours at colour 0.
AllocCall ==
    /\ phase = "search" /\ algo = "allocate_registers" /\ pc = "call"
    /\ LET var == get_unassigned_variable(node_order, assignments)
       IN  IF var = None
           THEN /\ ret' = TRUE
                /\ pc' = "return"
                /\ UNCHANGED stack
           ELSE /\ stack' = Append(stack, Frame(var, 0))
                /\ pc' = "loop"
                /\ UNCHANGED ret
    /\ UNCHANGED << blockVars, graphVars, assignments, colouring, num_regs,
                    result, algo, phase, fault, last_edge >>
    /\ UNCHANGED mainVars

\* One turn of "for colour in range(num_regs)": past the last colour return
\* False; a safe colour is assigned and the search recurses; an unsafe one
\* is skipped.
AllocLoop ==
    /\ phase = "search" /\ algo = "allocate_registers" /\ pc = "loop"
    /\ IF Top.colour >= num_regs
       THEN /\ stack' = Pop
            /\ ret' = FALSE
            /\ pc' = "return"
            /\ UNCHANGED assignments
       ELSE IF is_safe(nodes, assignments, Top.var, Top.colour)
            THEN /\ assignments' = assign(assignments, Top.var, Top.colour)
                 /\ pc' = "call"
                 /\ UNCHANGED << stack, ret >>
            ELSE /\ stack' = SetTopColour(Top.colour + 1)
                 /\ UNCHANGED << assignments, ret, pc >>
    /\ UNCHANGED << blockVars, graphVars, colouring, num_regs, result, algo,
                    phase, fault, last_edge >>
    /\ UNCHANGED mainVars

\* An activation has returned `ret` to its caller: the outermost call hands
\* it to main; a caller that got True returns True; a caller that got False
\* unassigns its variable and goes on with the next colour.
AllocReturn ==
    /\ phase = "search" /\ algo = "allocate_registers" /\ pc = "return"
    /\ IF stack = << >>
       THEN /\ result' = ret
            /\ phase' = "done"
            /\ pc' = "idle"
            /\ UNCHANGED << stack, assignments >>
       ELSE IF ret
            THEN /\ stack' = Pop
                 /\ UNCHANGED << assignments, pc, result, phase >>
            ELSE /\ assignments' = unassign(assignments, Top.var)
                 /\ stack' = SetTopColour(Top.colour + 1)
                 /\ pc' = "loop"
                 /\ UNCHANGED << result, phase >>
    /\ UNCHANGED << blockVars, graphVars, colouring, num_regs, ret, algo,
                    fault, last_edge >>
    /\ UNCHANGED mainVars

\* allocate_registers(graph, num_regs) as a function of the graph and of
\* the assignment map it is entered with: [ok, map], ok the value returned
\* and map the assignment map it leaves.
RECURSIVE allocate_registers(_, _, _, _)
RECURSIVE AllocColours(_, _, _, _, _, _)
allocate_registers(order, ns, asg, k) ==
    LET var == get_unassigned_variable(order, asg)
    IN  IF var = None THEN [ok |-> TRUE, map |-> asg]
        ELSE AllocColours(order, ns, asg, k, var, 0)

\* "for colour in range(num_regs)", entered at `colour`.
AllocColours(order, ns, asg, k, var, colour) ==
    IF colour >= k THEN [ok |-> FALSE, map |-> asg]
    ELSE IF is_safe(ns, asg, var, colour)
         THEN LET r == allocate_registers(order, ns, assign(asg, var, colour), k)
              IN  IF r.ok THEN r
                  ELSE AllocColours(order, ns, unassign(r.map, var), k, var, colour + 1)
         ELSE AllocColours(order, ns, asg, k, var, colour + 1)

-----------------------------------------------------------------------------
(* graphcolor.py: GraphColouring, on a graph with the networkx interface:  *)
(* nodes() lists the nodes in insertion order, neighbors(v) is v's         *)
(* adjacency, degree(v) the number of v's neighbours.                      *)

number_of_nodes(order) == Len(order)
neighbors(ns, v) == ns[v]
degree(ns, v) == Cardinality(ns[v])

\* interferencegraph.py, _add_nodes: graph.add_nodes_from(all_vars) inserts
\* the nodes in the iteration order of the Python set all_vars, which the
\* language does not fix (it changes with the hash seed of the process):
\* the orders nodes() may list the nodes in.
add_nodes_from(all_names) ==
    {l \in [1..Cardinality(all_names) -> all_names] : ToSet(l) = all_names}

\* _all_coloured satisfied with one node left uncoloured.
all_coloured_but_one(order, col) ==
    Cardinality(DOMAIN col) >= number_of_nodes(order) - 1

\* GraphColouring._all_coloured
all_coloured(order, col) == Cardinality(DOMAIN col) = number_of_nodes(order)

\* _can_use_colour looking up var itself instead of its neighbour.
can_use_colour_own_colour(ns, col, var, reg) ==
    \A neighbour \in neighbors(ns, var) :
        ~(var \in DOMAIN col /\ col[var] = reg)

\* GraphColouring._can_use_colour
can_use_colour(ns, col, var, reg) ==
    \A neighbour \in neighbors(ns, var) :
        ~(neighbour \in DOMAIN col /\ col[neighbour] = reg)

\* saturation of v: the number of distinct colours on its coloured neighbours
saturation(ns, col, v) ==
    Cardinality({col[n] : n \in {m \in neighbors(ns, v) : m \in DOMAIN col}})

\* score > best_score comparing the saturations only.
ScoreGreater_saturation_only(s, b) == s[1] > b[1]

\* score > best_score on the tuples (saturation, degree)
ScoreGreater(s, b) == s[1] > b[1] \/ (s[1] = b[1] /\ s[2] > b[2])

\* The loop "for v in uncoloured" of _select_next_variable, entered at
\* index i of the list of uncoloured nodes.
RECURSIVE SelectLoop(_, _, _, _, _, _)
SelectLoop(ns, col, uncoloured, i, best_var, best_score) ==
    IF i > Len(uncoloured) THEN best_var
    ELSE LET v == uncoloured[i]
             score == << saturation(ns, col, v), degree(ns, v) >>
         IN  IF ScoreGreater(score, best_score)
             THEN SelectLoop(ns, col, uncoloured, i + 1, v, score)
             ELSE SelectLoop(ns, col, uncoloured, i + 1, best_var, best_score)

\* GraphColouring._select_next_variable
select_next_variable(order, ns, col) ==
    LET uncoloured == SelectSeq(order, LAMBDA v : v \notin DOMAIN col)
    IN  SelectLoop(ns, col, uncoloured, 1, None, << -1, -1 >>)

\* GraphColouring(graph, num_registers).colour(), num_registers >= 1.
StartColour(k) ==
    /\ phase = "graph"
    /\ phase' = "search"
    /\ algo' = "GraphColouring"
    /\ num_regs' = k
    /\ pc' = "call"
    /\ last_edge' = << >>
    /\ UNCHANGED << blockVars, graphVars, assignments, colouring, stack, ret,
                    result, fault >>
    /\ UNCHANGED mainVars

\* Entry of one activation of _backtrack.
BacktrackCall ==
    /\ phase = "search" /\ algo = "GraphColouring" /\ pc = "call"
    /\ IF all_coloured(node_order, colouring)
       THEN /\ ret' = TRUE
            /\ pc' = "return"
            /\ UNCHANGED stack
       ELSE /\ stack' = Append(stack,
                               Frame(select_next_variable(node_order, nodes, colouring), 0))
            /\ pc' = "loop"
            /\ UNCHANGED ret
    /\ UNCHANGED << blockVars, graphVars, assignments, colouring, num_regs,
                    result, algo, phase, fault, last_edge >>
    /\ UNCHANGED mainVars

\* One turn of "for reg in range(self.num_registers)".
BacktrackLoop ==
    /\ phase = "search" /\ algo = "GraphColouring" /\ pc = "loop"
    /\ IF Top.colour >= num_regs
       THEN /\ stack' = Pop
            /\ ret' = FALSE
            /\ pc' = "return"
            /\ UNCHANGED colouring
       ELSE IF can_use_colour(nodes, colouring, Top.var, Top.colour)
            THEN /\ colouring' = assign(colouring, Top.var, Top.colour)
                 /\ pc' = "call"
                 /\ UNCHANGED << stack, ret >>
            ELSE /\ stack' = SetTopColour(Top.colour + 1)
                 /\ UNCHANGED << colouring, ret, pc >>
    /\ UNCHANGED << blockVars, graphVars, assignments, num_regs, result, algo,
                    phase, fault, last_edge >>
    /\ UNCHANGED mainVars

\* An activation of _backtrack has returned `ret`: on False the caller runs
\* "del self.colouring[var]" and goes on with the next register.
BacktrackReturn ==
    /\ phase = "search" /\ algo = "GraphColouring" /\ pc = "return"
    /\ IF stack = << >>
       THEN /\ result' = ret
            /\ phase' = "done"
            /\ pc' = "idle"
            /\ UNCHANGED << stack, colouring >>
       ELSE IF ret
            THEN /\ stack' = Pop
                 /\ UNCHANGED << colouring, pc, result, phase >>
            ELSE /\ colouring' = [x \in DOMAIN colouring \ {Top.var} |-> colouring[x]]
                 /\ stack' = SetTopColour(Top.colour + 1)
                 /\ pc' = "loop"
                 /\ UNCHANGED << result, phase >>
    /\ UNCHANGED << blockVars, graphVars, assignments, num_regs, ret, algo,
                    fault, last_edge >>
    /\ UNCHANGED mainVars

\* GraphColouring._backtrack as a function of the graph and of the
\* colouring it is entered with: [ok, map].
RECURSIVE backtrack(_, _, _, _)
RECURSIVE BacktrackColours(_, _, _, _, _, _)
backtrack(order, ns, col, k) ==
    IF all_coloured(order, col) THEN [ok |-> TRUE, map |-> col]
    ELSE BacktrackColours(order, ns, col, k, select_next_variable(order, ns, col), 0)

\* "for reg in range(self.num_registers)", entered at `reg`.
BacktrackColours(order, ns, col, k, var, reg) ==
    IF reg >= k THEN [ok |-> FALSE, map |-> col]
    ELSE IF can_use_colour(ns, col, var, reg)
         THEN LET r == backtrack(order, ns, assign(col, var, reg), k)
              IN  IF r.ok THEN r
                  ELSE BacktrackColours(order, ns,
                                        [x \in DOMAIN r.map \ {var} |-> r.map[x]],
                                        k, var, reg + 1)
         ELSE BacktrackColours(order, ns, col, k, var, reg + 1)

\* colour() with the register count fixed at 2, num_registers ignored.
colour_two_registers(order, ns, k) == backtrack(order, ns, << >>, 2)

\* GraphColouring(graph, num_registers).colour()
colour(order, ns, k) == backtrack(order, ns, << >>, k)

-----------------------------------------------------------------------------
(* main.py                                                                 *)

tok_0 == << "0" >>
tok_2 == << "2" >>
tok_3 == << "3" >>
tok_p2 == << "+", "2" >>
tok_02 == << "0", "2" >>
tok_empty == << >>
tok_script == << "m" >>
tok_file == << "f" >>

DigitValue(ch) ==
    CASE ch = "0" -> 0 [] ch = "1" -> 1 [] ch = "2" -> 2 [] ch = "3" -> 3
      [] ch = "4" -> 4 [] ch = "5" -> 5 [] ch = "6" -> 6 [] ch = "7" -> 7
      [] ch = "8" -> 8 [] ch = "9" -> 9

\* The number a string of decimal digits writes.
RECURSIVE DecimalValue(_)
DecimalValue(ds) ==
    IF ds = << >> THEN 0
    ELSE 10 * DecimalValue(SubSeq(ds, 1, Len(ds) - 1)) + DigitValue(ds[Len(ds)])

\* int(s) on a string of signs, digits and letters: an optional sign, then
\* one or more digits; anything else raises ValueError.
int(s) ==
    LET signed == Len(s) >= 1 /\ s[1] \in {"+", "-"}
        body == IF signed THEN SubSeq(s, 2, Len(s)) ELSE s
    IN  IF isdigit(body)
        THEN [raised |-> FALSE,
              value |-> IF signed /\ s[1] = "-" THEN 0 - DecimalValue(body)
                        ELSE DecimalValue(body)]
        ELSE [raised |-> TRUE, value |-> 0]

\* The command lines main is run with: too few arguments, too many, and a
\* register count that is zero, negative, positive, signed, zero-padded,
\* not a number, or empty.
CountTexts == {tok_0, tok_m1, tok_1, tok_2, tok_3, tok_p2, tok_02, tok_a, tok_empty}

ArgvPool ==
    {<< tok_script >>, << tok_script, tok_1, tok_file, tok_file >>}
    \cup {<< tok_script, k, tok_file >> : k \in CountTexts}

\* The blocks the input file may hold.
FileOpPool ==
    {Operation(tok_a, tok_a, tok_plus, tok_b, FALSE),
     Operation(tok_b, tok_t1, tok_plus, tok_m1, FALSE),
     Operation(tok_b, tok_a, None, None, FALSE),
     Operation(tok_a, tok_1, None, None, FALSE),
     Operation(tok_a, tok_a, None, None, TRUE)}

FileOplists == UNION {[1..n -> FileOpPool] : n \in 0..MaxOps}

InitMain ==
    /\ oplist = << >>
    /\ live_out = << >>
    /\ live_before = NoneTable
    /\ live_after = NoneTable
    /\ nodes = << >>
    /\ node_order = << >>
    /\ assignments = << >>
    /\ colouring = << >>
    /\ num_regs = 0
    /\ stack = << >>
    /\ pc = "idle"
    /\ ret = FALSE
    /\ result = FALSE
    /\ algo = "none"
    /\ phase = "main"
    /\ fault = "none"
    /\ last_edge = << >>
    /\ argv \in ArgvPool
    /\ main_return = << >>

\* main with the test num_regs < 0 in place of num_regs <= 0.
MainArgs_accepts_zero ==
    /\ phase = "main"
    /\ IF Len(argv) # 3
       THEN /\ main_return' = << 2 >>
            /\ phase' = "exit"
            /\ UNCHANGED num_regs
       ELSE LET n == int(argv[2])
            IN  IF n.raised \/ n.value < 0
                THEN /\ main_return' = << 2 >>
                     /\ phase' = "exit"
                     /\ UNCHANGED num_regs
                ELSE /\ num_regs' = n.value
                     /\ phase' = "read"
                     /\ UNCHANGED main_return
    /\ UNCHANGED << blockVars, graphVars, assignments, colouring, stack, pc,
                    ret, result, algo, fault, last_edge, argv >>

\* main, up to the register count: a wrong number of arguments returns 2;
\* int(sys.argv[1]) raising ValueError, or a count <= 0, returns 2.
MainArgs ==
    /\ phase = "main"
    /\ IF Len(argv) # 3
       THEN /\ main_return' = << 2 >>
            /\ phase' = "exit"
            /\ UNCHANGED num_regs
       ELSE LET n == int(argv[2])
            IN  IF n.raised \/ n.value <= 0
                THEN /\ main_return' = << 2 >>
                     /\ phase' = "exit"
                     /\ UNCHANGED num_regs
                ELSE /\ num_regs' = n.value
                     /\ phase' = "read"
                     /\ UNCHANGED main_return
    /\ UNCHANGED << blockVars, graphVars, assignments, colouring, stack, pc,
                    ret, result, algo, fault, last_edge, argv >>

\* main, reading the file: FileNotFoundError and ParseError return 2, else
\* the parser hands back a block.
MainRead ==
    /\ phase = "read"
    /\ \/ /\ main_return' = << 2 >>
          /\ phase' = "exit"
          /\ UNCHANGED << oplist, live_out >>
       \/ /\ \E ops \in FileOplists, lo \in {sorted(S) : S \in SUBSET LivePool} :
                 /\ oplist' = ops
                 /\ live_out' = lo
          /\ phase' = "block"
          /\ UNCHANGED main_return
    /\ UNCHANGED << live_before, live_after, graphVars, searchVars, fault,
                    last_edge, argv >>

\* main: success = allocate_registers(graph, num_regs)
MainAllocate ==
    /\ phase = "built" /\ argv # << >>
    /\ phase' = "search"
    /\ algo' = "allocate_registers"
    /\ pc' = "call"
    /\ UNCHANGED << blockVars, graphVars, assignments, colouring, num_regs,
                    stack, ret, result, fault, last_edge, mainVars >>

\* main: return 0 on success, 1 on failure.
MainReturn ==
    /\ phase = "done" /\ argv # << >>
    /\ main_return' = IF result THEN << 0 >> ELSE << 1 >>
    /\ phase' = "exit"
    /\ UNCHANGED << blockVars, graphVars, searchVars, fault, last_edge, argv >>

-----------------------------------------------------------------------------
(* Specifications.                                                         *)

\* A block: instructions inserted, liveness computed, the graph built.
NextBlock ==
    \/ \E op \in OpPool : insert(op)
    \/ compute_liveness_info
    \/ BuildGraph

SpecBlock == InitBlock /\ [][NextBlock]_vars

\* A graph: edges added, then one search run on it.
NextAlloc ==
    \/ \E u, v \in AllocNames : AddEdge(u, v)
    \/ \E k \in 1..MaxK : StartAllocate(k)
    \/ AllocCall
    \/ AllocLoop
    \/ AllocReturn
    \/ \E k \in 1..MaxK : StartColour(k)
    \/ BacktrackCall
    \/ BacktrackLoop
    \/ BacktrackReturn

SpecAlloc == InitGraph /\ [][NextAlloc]_vars

\* A run of main.
NextMain ==
    \/ MainArgs
    \/ MainRead
    \/ compute_liveness_info
    \/ BuildGraph
    \/ MainAllocate
    \/ AllocCall
    \/ AllocLoop
    \/ AllocReturn
    \/ MainReturn

SpecMain == InitMain /\ [][NextMain]_vars

\* The steps of a search under way.  The search is one sequential call:
\* once started it keeps taking its next step.
SearchStep ==
    \/ AllocCall
    \/ AllocLoop
    \/ AllocReturn
    \/ BacktrackCall
    \/ BacktrackLoop
    \/ BacktrackReturn

SpecAllocFair == SpecAlloc /\ WF_vars(SearchStep)

Init == InitBlock \/ InitGraph
Next == NextBlock \/ NextAlloc
Spec == Init /\ [][Next]_vars

-----------------------------------------------------------------------------
(* The properties checked.                                                 *)

\* The classification rule as the specification words it: the letter t
\* followed by one or more digits, or one lowercase letter other than t.
IsTemporary(tok) ==
    Len(tok) >= 2 /\ tok[1] = "t" /\ \A i \in 2..Len(tok) : tok[i] \in Digits
IsNamedVariable(tok) ==
    Len(tok) = 1 /\ tok[1] \in LowerLetters /\ tok[1] # "t"
IsVariable(tok) == IsTemporary(tok) \/ IsNamedVariable(tok)

\* The operands of an instruction that are variables.
VariableOperands(op) ==
    {x \in {op.operand1, op.operand2} : x # None /\ IsVariable(x)}

\* The liveness tables are those compute_liveness returned for the block
\* as it stands.
TablesFresh == live_before # NoneTable /\ Len(live_before) = Len(oplist)

\* The map the search that ran has filled.
Assigned == IF algo = "GraphColouring" THEN colouring ELSE assignments

Edges == {e \in (DOMAIN nodes) \X (DOMAIN nodes) : e[2] \in nodes[e[1]]}

ProperColouring(f) == \A e \in Edges : f[e[1]] # f[e[2]]

Colourable(k) == \E f \in [DOMAIN nodes -> 0..(k - 1)] : ProperColouring(f)

Finished == phase = "done"

\* C1: when a search returns success every node carries a colour in
\* 0..k-1 and the two ends of every edge carry different colours.
C1_ColouringValid ==
    (Finished /\ result) =>
        /\ DOMAIN Assigned = DOMAIN nodes
        /\ \A v \in DOMAIN nodes : Assigned[v] \in 0..(num_regs - 1)
        /\ \A e \in Edges : Assigned[e[1]] # Assigned[e[2]]

C1_Witness ==
    /\ Finished /\ result /\ algo = "allocate_registers"
    /\ Len(node_order) = 4 /\ Cardinality(Edges) >= 6 /\ num_regs = 2

\* C2: the search, started on an empty map, returns success exactly when
\* the graph has a proper colouring with the colours 0..k-1.
C2_DecisionCorrect == Finished => (result <=> Colourable(num_regs))

C2_Witness ==
    /\ Finished /\ ~result /\ algo = "allocate_registers"
    /\ num_regs = 2 /\ Len(node_order) = 4

\* C3: in the tables compute_liveness returns, liveBefore[i] is the set of
\* variable operands of instruction i together with liveAfter[i] less the
\* destination; operands that are not variables add nothing.
C3_LiveBefore ==
    TablesFresh =>
        \A i \in 1..Len(oplist) :
            live_before[i] =
                VariableOperands(oplist[i])
                \cup (live_after[i] \ {oplist[i].destination})

C3_Witness ==
    /\ TablesFresh /\ Len(oplist) = 2
    /\ oplist[2].operand1 = tok_1 /\ oplist[2].operand2 = tok_b
    /\ oplist[1].operand1 = tok_t
    /\ oplist[2].destination \in live_after[2]
    /\ live_before[2] = {tok_b, tok_t1}

\* C4: in the tables compute_liveness returns for a non-empty block,
\* liveAfter of the last instruction is liveOut and liveAfter of every
\* other instruction is liveBefore of the next one.
C4_LiveAfter ==
    (TablesFresh /\ Len(oplist) > 0) =>
        /\ live_after[Len(oplist)] = ToSet(live_out)
        /\ \A i \in 1..(Len(oplist) - 1) : live_after[i] = live_before[i + 1]

C4_Witness ==
    /\ TablesFresh /\ Len(oplist) = 2
    /\ Cardinality(ToSet(live_out)) = 2
    /\ live_before[2] # live_after[2]
    /\ live_after[1] # live_after[2]

\* Two names are live together at a point the builder looks at.
LiveTogether(u, v) ==
    \/ \E i \in 1..Len(live_after) : u \in live_after[i] /\ v \in live_after[i]
    \/ Len(live_before) > 0 /\ u \in live_before[1] /\ v \in live_before[1]

\* C5: in the graph build_interference_graph returns, two distinct
\* variables are adjacent exactly when both are in some liveAfter[i] or both
\* in liveBefore[0]; neighbour sets hold nothing else.
C5_EdgeConstruction ==
    phase = "built" =>
        /\ \A u, v \in DOMAIN nodes :
               u # v => (v \in nodes[u] <=> LiveTogether(u, v))
        /\ \A u \in DOMAIN nodes : nodes[u] \subseteq DOMAIN nodes \ {u}

\* A copy b = a whose source and destination are adjacent, through the
\* entry live-set alone.
C5_Witness ==
    /\ phase = "built" /\ Len(oplist) = 2
    /\ oplist[2].operator = None /\ ~oplist[2].unary_neg
    /\ oplist[2].operand1 = tok_a /\ oplist[2].destination = tok_b
    /\ tok_b \in nodes[tok_a]
    /\ \A i \in 1..Len(live_after) : ~(tok_a \in live_after[i] /\ tok_b \in live_after[i])

\* The names of a block: destinations, operands and live-out names.
BlockNames ==
    ToSet(live_out)
    \cup {oplist[i].destination : i \in 1..Len(oplist)}
    \cup {oplist[i].operand1 : i \in 1..Len(oplist)}
    \cup {oplist[i].operand2 : i \in 1..Len(oplist)}

\* C6: the nodes of the graph build_interference_graph returns are exactly
\* the names of the block that the classification rule calls variables.
C6_NodeSet ==
    phase = "built" =>
        /\ DOMAIN nodes = {x \in BlockNames : x # None /\ IsVariable(x)}
        /\ ToSet(node_order) = DOMAIN nodes

C6_Witness ==
    /\ phase = "built" /\ Len(oplist) = 2
    /\ tok_t \in ToSet(live_out)
    /\ oplist[1].operand1 = tok_1
    /\ oplist[2].operand2 = tok_m1
    /\ DOMAIN nodes = {tok_a, tok_b, tok_t1}

\* C7: no variable is in its own neighbour set, whatever add_edge calls
\* were made (add_edge(v, v) among them) and in every graph built.
C7_NoSelfInterference == \A v \in DOMAIN nodes : v \notin nodes[v]

C7_Witness ==
    /\ phase = "graph" /\ Len(last_edge) = 2
    /\ last_edge[1] = last_edge[2] /\ last_edge[1] \in DOMAIN nodes
    /\ nodes[last_edge[1]] # {}

\* C8: between nodes adjacency is symmetric, and add_edge on an edge that
\* is already there leaves the adjacency as it is.
C8_Symmetry ==
    \A u, v \in DOMAIN nodes :
        /\ u \in nodes[v] <=> v \in nodes[u]
        /\ v \in nodes[u] => add_edge(nodes, u, v).nodes = nodes

C8_Witness ==
    /\ phase = "graph" /\ Len(last_edge) = 2
    /\ last_edge[1] # last_edge[2]
    /\ last_edge[1] \in DOMAIN nodes /\ last_edge[2] \in DOMAIN nodes
    /\ last_edge[2] \in nodes[last_edge[1]]
    /\ Cardinality(Edges) = 6

\* C9: when a search started on an empty map returns failure the map is
\* empty again.
C9_UnwoundOnFailure == (Finished /\ ~result) => DOMAIN Assigned = {}

C9_Witness ==
    /\ Finished /\ ~result /\ algo = "allocate_registers"
    /\ Len(node_order) = 4 /\ num_regs = 3

\* C10: build_interference_graph raises no fault on a block whose live-out
\* list names something that is not a variable, nor on a block with no
\* instructions.
C10_MalformedTolerated ==
    (oplist = << >> \/ \E i \in 1..Len(live_out) : ~IsVariable(live_out[i]))
        => fault = "none"

\* An integer literal: digits, with an optional minus sign in front.
IsIntegerLiteral(tok) ==
    LET body == IF Len(tok) >= 1 /\ tok[1] = "-" THEN SubSeq(tok, 2, Len(tok)) ELSE tok
    IN  Len(body) >= 1 /\ \A i \in 1..Len(body) : body[i] \in Digits

\* A well-formed block: destinations and live-out names are variables, each
\* operand that is present is a variable or an integer literal.
WellFormedBlock ==
    /\ \A i \in 1..Len(live_out) : IsVariable(live_out[i])
    /\ \A i \in 1..Len(oplist) :
           /\ IsVariable(oplist[i].destination)
           /\ \A x \in {oplist[i].operand1, oplist[i].operand2} \ {None} :
                  IsVariable(x) \/ IsIntegerLiteral(x)

\* The names in liveBefore[0] and in the liveAfter sets.
LiveNames ==
    IF live_before = NoneTable THEN {}
    ELSE (IF Len(live_before) > 0 THEN live_before[1] ELSE {})
         \cup UNION {live_after[i] : i \in 1..Len(live_after)}

\* C11: on a well-formed block build_interference_graph raises no fault,
\* and every name in liveBefore[0] or in a liveAfter set is a node of the
\* graph it returns.
C11_BuildCannotFail ==
    WellFormedBlock =>
        /\ fault = "none" /\ phase # "fault"
        /\ phase = "built" => LiveNames \subseteq DOMAIN nodes

\* A built well-formed block with an integer operand, whose live-out list
\* names a variable no instruction mentions, adjacent to another one.
C11_Witness ==
    /\ phase = "built" /\ WellFormedBlock /\ Len(oplist) = 2
    /\ \E i \in 1..2 : oplist[i].operand1 = tok_1
    /\ tok_t1 \in ToSet(live_out)
    /\ \A i \in 1..2 : tok_t1 \notin {oplist[i].operand1, oplist[i].operand2}
    /\ nodes[tok_t1] # {}

\* The texts that write a positive integer: digits, not all of them 0, with
\* no sign or a plus sign in front.
WritesPositiveInteger(tok) ==
    LET body == IF Len(tok) >= 1 /\ tok[1] = "+" THEN SubSeq(tok, 2, Len(tok)) ELSE tok
    IN  /\ Len(body) >= 1
        /\ \A i \in 1..Len(body) : body[i] \in Digits
        /\ \E i \in 1..Len(body) : body[i] # "0"

\* C12: when the register count given to main is not a positive integer,
\* main returns 2 and allocate_registers is never called; allocate_registers
\* only runs with k >= 1, and main then returns 0 on success and 1 on
\* failure.
C12_BadCountRejected ==
    /\ (Len(argv) = 3 /\ ~WritesPositiveInteger(argv[2])) =>
           /\ algo = "none" /\ phase \in {"main", "exit"}
           /\ phase = "exit" => main_return = << 2 >>
    /\ algo # "none" => num_regs >= 1
    /\ (phase = "exit" /\ algo # "none") =>
           main_return = (IF result THEN << 0 >> ELSE << 1 >>)

\* main has returned 2 for the register count 0.
C12_Witness ==
    /\ Len(argv) = 3 /\ argv[2] = tok_0
    /\ phase = "exit" /\ main_return = << 2 >>

\* The answer of the search that ran in this state, had it been run on the
\* same graph with k registers from an empty map.
AnswerWith(k) ==
    IF algo = "GraphColouring" THEN colour(node_order, nodes, k).ok
    ELSE allocate_registers(node_order, nodes, << >>, k).ok

\* C13: a search that fails with k registers fails with every smaller
\* count k' >= 1 on the same graph, and one that succeeds with k registers
\* succeeds with every larger count.
C13_Monotone ==
    Finished =>
        /\ ~result => \A k \in 1..(num_regs - 1) : ~AnswerWith(k)
        /\ result => \A k \in (num_regs + 1)..(MaxK + 1) : AnswerWith(k)

\* A triangle with a pendant node: failure with 2 registers, where 1 fails
\* too and 3 succeeds.
C13_Witness ==
    /\ Finished /\ ~result /\ num_regs = 2 /\ algo = "allocate_registers"
    /\ Len(node_order) = 4 /\ Cardinality(Edges) = 8
    /\ ~AnswerWith(1) /\ AnswerWith(3)

\* C14: every search that is started returns (with success or failure).
C14_Terminates == (phase = "search") ~> Finished

\* The saturation-degree search has gone through every colouring of the
\* complete graph on four nodes with three registers and returned failure.
C14_Witness ==
    /\ Finished /\ ~result /\ algo = "GraphColouring"
    /\ Len(node_order) = 4 /\ Cardinality(Edges) = 12 /\ num_regs = 3

\* C15: the result of a search (the answer and the map returned) is the
\* same whatever order the set of node names was iterated in when the graph
\* was built: the saturation-degree search on a graph whose nodes were
\* inserted from a set, allocate_registers on a graph whose nodes were
\* inserted in sorted order.
C15_Reproducible ==
    Finished =>
        IF algo = "GraphColouring"
        THEN \A o \in add_nodes_from(DOMAIN nodes) :
                 colour(o, nodes, num_regs) = [ok |-> result, map |-> colouring]
        ELSE node_order = sorted(DOMAIN nodes) =>
                 allocate_registers(node_order, nodes, << >>, num_regs)
                     = [ok |-> result, map |-> assignments]

\* C16: in every state of a search, the two ends of every edge that are
\* both assigned carry different registers, and every assigned register is
\* one of 0..k-1.
C16_PartialColouring ==
    /\ \A e \in Edges :
           (e[1] \in DOMAIN Assigned /\ e[2] \in DOMAIN Assigned)
               => Assigned[e[1]] # Assigned[e[2]]
    /\ \A v \in DOMAIN Assigned : Assigned[v] \in 0..(num_regs - 1)

\* In the middle of the saturation-degree search, after a backtrack: three
\* activations deep, the innermost past its first register, two adjacent
\* nodes coloured.
C16_Witness ==
    /\ phase = "search" /\ algo = "GraphColouring" /\ pc = "loop"
    /\ Len(stack) = 3 /\ Top.colour >= 1
    /\ \E e \in Edges : e[1] \in DOMAIN colouring /\ e[2] \in DOMAIN colouring

\* The nodes without a register, and the two measures of a node: the number
\* of distinct registers on its assigned neighbours, and its number of
\* neighbours.
Unassigned == DOMAIN nodes \ DOMAIN Assigned
Saturation(v) == Cardinality({Assigned[n] : n \in nodes[v] \cap DOMAIN Assigned})
Degree(v) == Cardinality(nodes[v])

\* A search stands at a branching step: the innermost activation has picked
\* its node and goes through the registers for it.
Branching == phase = "search" /\ pc = "loop"

\* The node picked is unassigned, no unassigned node has a higher
\* saturation, and none of the same saturation has a higher degree.
PickedBySaturation ==
    /\ Top.var \in Unassigned
    /\ \A w \in Unassigned :
           /\ Saturation(w) <= Saturation(Top.var)
           /\ Saturation(w) = Saturation(Top.var) => Degree(w) <= Degree(Top.var)

\* The node picked is the first one of the node order that is unassigned.
PickedFirstUnassigned ==
    \E i \in 1..Len(node_order) :
        /\ node_order[i] = Top.var
        /\ Top.var \in Unassigned
        /\ \A j \in 1..(i - 1) : node_order[j] \notin Unassigned

OtherSearch ==
    IF algo = "GraphColouring"
    THEN allocate_registers(node_order, nodes, << >>, num_regs)
    ELSE colour(node_order, nodes, num_regs)

\* C18: on the same graph with the same k the saturation-degree search and
\* allocate_registers return the same answer.
C18_SameAnswer == Finished => (result <=> OtherSearch.ok)

\* Both searches succeed on a graph of four nodes and return different
\* colourings.
C18_Witness ==
    /\ Finished /\ result /\ algo = "GraphColouring"
    /\ Len(node_order) = 4
    /\ OtherSearch.ok /\ OtherSearch.map # colouring

\* C19: in every state of a block reached by insert and
\* compute_liveness_info calls, liveness tables that are present have one
\* entry per instruction of oplist (none for an empty block).
C19_TablesAligned ==
    live_before # NoneTable =>
        /\ Len(live_before) = Len(oplist)
        /\ Len(live_after) = Len(oplist)

\* The sets compute_liveness returns are objects of their own: no two
\* entries of the returned lists are the same object, none is the live_out
\* argument, the argument holds what it held, and the entries hold the
\* tables of the block.
NoAliasing ==
    TablesFresh =>
        LET r == compute_liveness_objects(oplist, ToSet(live_out))
            n == Len(oplist)
        IN  /\ Len(r.lb) = n /\ Len(r.la) = n
            /\ \A i \in 1..n : live_before[i] = r.store[r.lb[i]]
            /\ \A i \in 1..n : live_after[i] = r.store[r.la[i]]
            /\ \A i, j \in 1..n : i # j => (r.lb[i] # r.lb[j] /\ r.la[i] # r.la[j])
            /\ \A i, j \in 1..n : r.lb[i] # r.la[j]
            /\ \A i \in 1..n : r.lb[i] # 1 /\ r.la[i] # 1
            /\ r.store[1] = ToSet(live_out)

\* A step of compute_liveness_info, of build_interference_graph, of a
\* search.
LivenessStep == phase = "block" /\ (live_before' # live_before \/ live_after' # live_after)
BuildStep == phase = "block" /\ phase' \in {"built", "fault"}
AllocateStep == phase' = "search" \/ phase = "search"

\* C20: build_interference_graph leaves oplist, live_out, live_before and
\* live_after as they were; compute_liveness leaves its arguments as they
\* were and returns sets none of which is another one or the argument;
\* allocate_registers leaves the block and the graph's nodes and adjacency
\* as they were.
C20_Frame ==
    /\ [][BuildStep => UNCHANGED blockVars]_vars
    /\ [][LivenessStep => UNCHANGED << oplist, live_out >>]_vars
    /\ [][AllocateStep => UNCHANGED << blockVars, graphVars >>]_vars
    /\ []NoAliasing

\* main has gone through liveness, graph construction and a successful
\* allocation on a block of two instructions whose graph has an edge.
C20_Witness ==
    /\ phase = "exit" /\ main_return = << 0 >>
    /\ Len(oplist) = 2 /\ TablesFresh
    /\ Edges # {} /\ DOMAIN assignments = DOMAIN nodes
    /\ live_after[1] # live_after[2]

\* main holds the graph build_interference_graph returned for its block.
GraphBuilt == argv # << >> /\ phase \in {"built", "search", "done", "exit"}

\* Every two distinct live-out names are adjacent in the graph and, once
\* the allocation has succeeded, carry different registers.
ExitLiveApart ==
    \A u, v \in ToSet(live_out) :
        u # v =>
            /\ u \in DOMAIN nodes /\ v \in DOMAIN nodes /\ v \in nodes[u]
            /\ (phase \in {"done", "exit"} /\ result) => assignments[u] # assignments[v]

\* C21 as stated: for every block, one with no instructions included,
\* whose live-out names are all variables, every two distinct live-out names
\* are adjacent in the graph built, and get different registers in a
\* successful allocation.
C21_ExitLiveAdjacent ==
    (GraphBuilt /\ \A i \in 1..Len(live_out) : IsVariable(live_out[i]))
        => ExitLiveApart

\* C21 amended: the same for every block with at least one instruction.
C21_ExitLiveAdjacentNonEmpty ==
    (GraphBuilt /\ Len(oplist) >= 1
        /\ \A i \in 1..Len(live_out) : IsVariable(live_out[i]))
        => ExitLiveApart

\* main has returned success on a block whose last instruction defines one
\* of its two live-out variables.
C21_Witness ==
    /\ phase = "exit" /\ main_return = << 0 >> /\ num_regs = 2
    /\ Len(oplist) = 2 /\ live_out = << tok_b, tok_t1 >>
    /\ oplist[2].destination = tok_b
    /\ assignments[tok_b] # assignments[tok_t1]

\* f, read as the sequence of its colours in the node order, is no larger
\* than g in the lexicographic order.
LexLeq(f, g) ==
    \/ \A i \in 1..Len(node_order) : f[node_order[i]] = g[node_order[i]]
    \/ \E i \in 1..Len(node_order) :
           /\ f[node_order[i]] < g[node_order[i]]
           /\ \A j \in 1..(i - 1) : f[node_order[j]] = g[node_order[j]]

\* C22: when allocate_registers succeeds, the assignment it returns, read
\* in the node order, is the lexicographically least proper colouring of
\* the graph with the colours 0..k-1; the first node carries colour 0.
C22_LexLeast ==
    (Finished /\ result /\ algo = "allocate_registers") =>
        /\ DOMAIN assignments = DOMAIN nodes
        /\ ProperColouring(assignments)
        /\ \A f \in [DOMAIN nodes -> 0..(num_regs - 1)] :
               ProperColouring(f) => LexLeq(assignments, f)
        /\ Len(node_order) >= 1 => assignments[node_order[1]] = 0

\* A success with three registers on four nodes, the third register in
\* use, on a graph that has more than one proper colouring.
C22_Witness ==
    /\ Finished /\ result /\ algo = "allocate_registers"
    /\ num_regs = 3 /\ Len(node_order) = 4
    /\ \E v \in DOMAIN nodes : assignments[v] = 2
    /\ \E f \in [DOMAIN nodes -> 0..2] : ProperColouring(f) /\ f # assignments

====
